---- MODULE Spec2Model ----
(***************************************************************************)
(* Model of the librarian trade entry workflow (src/add_lib_trade.py).     *)
(*                                                                         *)
(* A state is a point where the process waits for a line of standard       *)
(* input (or is about to call add_librarian_trade, or has ended).  An      *)
(* action reads one line and runs the code up to the next input.  Text is  *)
(* a sequence of one-character strings, so that strip(), lower() and int() *)
(* are computed, not assumed.                                              *)
(***************************************************************************)
EXTENDS Integers, Sequences, FiniteSets, Bags, TLC

VARIABLES
    locations,      \* table locations: location -> [x_coord, z_coord]
    villagers,      \* table villagers: villager_id -> [location, job]
    enchantments,   \* table enchantments: enchantment -> max_level
    trades,         \* table librarian_trades: a bag of rows
    pc,             \* where the process waits
    last_loc,       \* __main__: remembered location (None when cleared)
    last_v_id,      \* __main__: remembered villager (None when cleared)
    loc,            \* loc of get_location and add_librarian_trade, then the value returned
    v_id,           \* v_id of get_villager_id and add_librarian_trade, then the value returned
    status,         \* status returned by the last finished attempt
    ench,           \* add_librarian_trade: ench
    max_lvl,        \* add_librarian_trade: max_lvl
    level,          \* add_librarian_trade: level
    cost,           \* add_librarian_trade: cost
    x,              \* get_location: x, between the two coordinate prompts
    reply,          \* confirm / move / choice: the last y-n answer, normalised
    attempts,       \* calls of add_librarian_trade made so far
    durable,        \* locations, villagers and librarian_trades as committed to the file
    jobs,           \* table jobs: the set of job names
    etl_log,        \* mc_trading_etl.py: the closing log line of its last run
    runs            \* mc_trading_etl.py: runs made so far

vars == <<locations, villagers, enchantments, trades, pc, last_loc, last_v_id,
          loc, v_id, status, ench, max_lvl, level, cost, x, reply, attempts,
          durable, jobs, etl_log, runs>>

db == <<locations, villagers, enchantments, trades>>
locals == <<ench, max_lvl, level, cost, x>>
etl == <<jobs, etl_log, runs>>

\* Entry attempts one explored session may make.
MaxAttempts == 2

\* The most rows a villager may hold before the capacity gate closes.
TRADE_LIMIT == 4

\* Bounds of the emerald cost accepted by get_cost.
MIN_COST == 1
MAX_COST == 64

\* Python's None.  No input line equals it: lines hold one-character strings.
None == <<"None">>

\* Python truthiness of a str-or-None value ("if pre_loc:", "if last_v_id:").
Truthy(v) == v # None /\ v # <<>>

----------------------------------------------------------------------------
(* Text: str.strip(), str.lower(), int().                                  *)

Whitespace == {" "}

RECURSIVE LStrip(_)
LStrip(s) == IF s # <<>> /\ Head(s) \in Whitespace THEN LStrip(Tail(s)) ELSE s

RECURSIVE RStrip(_)
RStrip(s) ==
    IF s # <<>> /\ s[Len(s)] \in Whitespace
    THEN RStrip(SubSeq(s, 1, Len(s) - 1))
    ELSE s

Strip(s) == RStrip(LStrip(s))

ToLower ==
    ("Y" :> "y") @@ ("N" :> "n") @@ ("S" :> "s") @@ ("P" :> "p") @@
    ("M" :> "m") @@ ("E" :> "e") @@ ("X" :> "x") @@ ("I" :> "i") @@ ("T" :> "t")

Lower(s) ==
    [i \in 1..Len(s) |-> IF s[i] \in DOMAIN ToLower THEN ToLower[s[i]] ELSE s[i]]

\* Mutant: the line is not lower-cased.
Normalise_NoLower(line) == Strip(line)

\* input(...).strip().lower()
Normalise(line) == Lower(Strip(line))

DigitVal ==
    ("0" :> 0) @@ ("1" :> 1) @@ ("2" :> 2) @@ ("3" :> 3) @@ ("4" :> 4) @@
    ("5" :> 5) @@ ("6" :> 6) @@ ("7" :> 7) @@ ("8" :> 8) @@ ("9" :> 9)

AllDigits(s) == s # <<>> /\ \A i \in 1..Len(s) : s[i] \in DOMAIN DigitVal

RECURSIVE DigitsToNat(_)
DigitsToNat(s) ==
    IF s = <<>> THEN 0
    ELSE 10 * DigitsToNat(SubSeq(s, 1, Len(s) - 1)) + DigitVal[s[Len(s)]]

\* int(text) succeeds (raises no ValueError): an optional sign, then digits.
IsInt(text) ==
    /\ text # <<>>
    /\ IF Head(text) \in {"+", "-"} THEN AllDigits(Tail(text)) ELSE AllDigits(text)

\* int(text), for a text int() accepts.
ToInt(text) ==
    IF Head(text) = "-" THEN 0 - DigitsToNat(Tail(text))
    ELSE IF Head(text) = "+" THEN DigitsToNat(Tail(text))
    ELSE DigitsToNat(text)

Yes == <<"y">>
No == <<"n">>
Exit == <<"e", "x", "i", "t">>

----------------------------------------------------------------------------
(* Lines the user may type at each kind of prompt.                         *)

NameLines == {<<>>, <<" ">>, <<"s">>, <<" ", "S">>, <<"n">>}
IdLines == {<<>>, <<"p">>, <<"P", " ">>, <<"q">>, <<"f">>}
EnchLines == {<<>>, <<"m">>, <<" ", "M">>, <<"u">>, <<"z">>, <<"w">>}
ConfirmLines == {<<"y">>, <<" ", "Y">>, <<"n">>, <<"N", " ">>, <<>>, <<"x">>}
ChoiceLines == ConfirmLines \cup {<<"e", "x", "i", "t">>, <<"E", "X", "I", "T", " ">>}
CoordLines == {<<"7">>, <<"-", "7", " ">>, <<"x">>, <<>>}
LevelLines == {<<"0">>, <<"1">>, <<" ", "2">>, <<"3">>, <<"-", "1">>, <<"x">>, <<>>}
CostLines == {<<"0">>, <<"1">>, <<"6", "4">>, <<"6", "5">>, <<"+", "1">>, <<"y">>, <<>>}

----------------------------------------------------------------------------
(* The database.                                                           *)

Librarian == <<"librarian">>

Row(v, e, l, c) ==
    [villager_id |-> v, enchantment |-> e, enchantment_level |-> l, cost_emeralds |-> c]

RECURSIVE SumCopies(_, _)
SumCopies(t, rows) ==
    IF rows = {} THEN 0
    ELSE LET r == CHOOSE r \in rows : TRUE
         IN  CopiesIn(r, t) + SumCopies(t, rows \ {r})

\* SELECT COUNT(*) FROM librarian_trades WHERE villager_id = v
TradeCount(t, v) == SumCopies(t, {r \in BagToSet(t) : r.villager_id = v})

\* Mutant: the duplicate query answers only from the second copy on.
IsDuplicate_FromSecondCopy(t, r) == CopiesIn(r, t) >= 2

\* SELECT 1 FROM librarian_trades WHERE villager_id, enchantment, level, cost match
IsDuplicate(t, r) == BagIn(r, t)

\* Mutant: the insert replaces the villager's rows of the same enchantment.
InsertTrade_Upsert(t, r) ==
    LET keep == {s \in BagToSet(t) : ~(s.villager_id = r.villager_id
                                        /\ s.enchantment = r.enchantment)}
    IN  [s \in keep |-> t[s]] (+) SetToBag({r})

\* INSERT INTO librarian_trades, committed when the "with conn" block is left
InsertTrade(t, r) == t (+) SetToBag({r})

\* Mutant: the explicit commit is missing.
CommitNow_Missing(d, l, v, t) == d

\* conn.commit() (lines 92, 129, 149): the connection's tables become durable.
CommitNow(d, l, v, t) == [locations |-> l, villagers |-> v, trades |-> t]

\* Leaving "with conn:" by a return (line 212): the open transaction commits.
WithExit(d, l, v, t) == [locations |-> l, villagers |-> v, trades |-> t]

\* Mutant: the INSERT is lost.
InsertLocation_Lost(tbl, l, xc, zc) == tbl

\* INSERT INTO locations
InsertLocation(tbl, l, xc, zc) == tbl @@ (l :> [x_coord |-> xc, z_coord |-> zc])

\* INSERT INTO villagers (villager_id, location, 'librarian')
InsertVillager(tbl, v, l) == tbl @@ (v :> [location |-> l, job |-> Librarian])

\* Mutant: the UPDATE has no WHERE clause.
MoveVillager_NoWhere(tbl, v, l) == [w \in DOMAIN tbl |-> [tbl[w] EXCEPT !.location = l]]

\* Mutant: the UPDATE is lost.
MoveVillager_Lost(tbl, v, l) == tbl

\* UPDATE villagers SET location = l WHERE villager_id = v
MoveVillager(tbl, v, l) == [tbl EXCEPT ![v].location = l]

\* Databases a session may start from: one hall "s" holding the librarian "p"
\* and the farmer "f"; enchantments of maximum level 1, 2 and 0; and the
\* librarian holding no, three, four or (the store enforces no limit) five rows.
InitLocations == <<"s">> :> [x_coord |-> 0, z_coord |-> 0]
InitVillagers ==
    (<<"p">> :> [location |-> <<"s">>, job |-> Librarian]) @@
    (<<"f">> :> [location |-> <<"s">>, job |-> <<"farmer">>])
InitEnchantments == (<<"m">> :> 1) @@ (<<"u">> :> 2) @@ (<<"z">> :> 0)
InitJobs == {<<"librarian">>, <<"farmer">>}
InitRows ==
    << Row(<<"p">>, <<"m">>, 1, 1), Row(<<"p">>, <<"u">>, 1, 64),
       Row(<<"p">>, <<"u">>, 2, 1), Row(<<"p">>, <<"m">>, 1, 64) >>
InitTrades ==
    { EmptyBag,
      SetToBag({InitRows[i] : i \in 1..3}),
      SetToBag({InitRows[i] : i \in 1..4}),
      SetToBag({InitRows[i] : i \in 1..4}) (+) SetToBag({InitRows[1]}) }

Init ==
    /\ locations = InitLocations
    /\ villagers = InitVillagers
    /\ enchantments = InitEnchantments
    /\ trades \in InitTrades
    /\ pc = "call"
    /\ last_loc = None /\ last_v_id = None
    /\ loc = None /\ v_id = None /\ status = "none"
    /\ ench = None /\ max_lvl = 0 /\ level = 0 /\ cost = 0 /\ x = 0
    /\ reply = None
    /\ attempts = 0
    /\ durable = [locations |-> locations, villagers |-> villagers, trades |-> trades]
    /\ jobs = InitJobs
    /\ etl_log = "none"
    /\ runs = 0

----------------------------------------------------------------------------
(* The outer loop's bookkeeping (lines 294-347).                           *)

\* Mutant: "full" keeps the villager remembered.
UpdateMemory_FullKeepsVillager(st, l, v, old_loc, old_v_id) ==
    IF st \in {"success", "cancelled", "full"} THEN [last_loc |-> l, last_v_id |-> v]
    ELSE [last_loc |-> old_loc, last_v_id |-> old_v_id]

\* Mutant: the location remembered is the one of the attempt before.
UpdateMemory_StaleLocation(st, l, v, old_loc, old_v_id) ==
    IF st \in {"success", "cancelled"} THEN [last_loc |-> old_loc, last_v_id |-> v]
    ELSE IF st = "full" THEN [last_loc |-> l, last_v_id |-> None]
    ELSE [last_loc |-> old_loc, last_v_id |-> old_v_id]

\* "2. Update memory based on status": the remembered pair after an attempt
\* that returned (l, v, st).
UpdateMemory(st, l, v, old_loc, old_v_id) ==
    IF st \in {"success", "cancelled"} THEN [last_loc |-> l, last_v_id |-> v]
    ELSE IF st = "full" THEN [last_loc |-> l, last_v_id |-> None]
    ELSE [last_loc |-> old_loc, last_v_id |-> old_v_id]

\* "3. Prompt for next action": the first continuation prompt issued.
FirstPrompt(ll, lv) ==
    IF Truthy(lv) THEN "cont_v" ELSE IF Truthy(ll) THEN "cont_l" ELSE "cont_n"

ResetLocals ==
    ench' = None /\ max_lvl' = 0 /\ level' = 0 /\ cost' = 0 /\ x' = 0

\* add_librarian_trade returns (l, v, st); the loop stores it, updates its
\* memory and issues the first continuation prompt.
Return(l, v, st) ==
    LET m == UpdateMemory(st, l, v, last_loc, last_v_id) IN
    /\ loc' = l /\ v_id' = v /\ status' = st
    /\ last_loc' = m.last_loc /\ last_v_id' = m.last_v_id
    /\ pc' = FirstPrompt(m.last_loc, m.last_v_id)
    /\ ResetLocals

\* Mutant: the remembered villager is ignored and asked for again.
AfterLocation_AlwaysAsks(l) == loc' = l /\ v_id' = None /\ pc' = "vid"

\* Lines 223-228: with the location l settled, the villager is the remembered
\* one (pre_v_id) or is asked for.
AfterLocation(l) ==
    /\ loc' = l
    /\ IF Truthy(last_v_id)
       THEN v_id' = last_v_id /\ pc' = "gate"
       ELSE v_id' = None /\ pc' = "vid"

InAttempt ==
    pc \in {"loc", "loc_confirm", "loc_x", "loc_z", "vid", "vmove", "vnew",
            "gate", "ench", "level", "cost", "dup"}

----------------------------------------------------------------------------
(* add_librarian_trade, one action per input read.                         *)

\* Lines 205-221: the call connects.  A failed connect is caught at line 208
\* and returns at 210; the finally clause then reads conn, which was never
\* bound, and the UnboundLocalError leaves the function and the loop.
Connect ==
    /\ pc = "call"
    /\ attempts < MaxAttempts
    /\ attempts' = attempts + 1
    /\ \/ /\ pc' = "crashed"
          /\ UNCHANGED <<loc, v_id, status>>
       \/ /\ status' = "none"
          /\ IF Truthy(last_loc)
             THEN AfterLocation(last_loc)
             ELSE pc' = "loc" /\ loc' = None /\ v_id' = None
    /\ UNCHANGED <<db, last_loc, last_v_id, locals, reply, durable, etl>>

\* Lines 65-73: the location prompt.
get_location(line) ==
    /\ pc = "loc"
    /\ LET name == Normalise(line) IN
       IF name = <<>> THEN loc' = name /\ UNCHANGED <<pc, v_id>>
       ELSE IF name \in DOMAIN locations THEN AfterLocation(name)
       ELSE pc' = "loc_confirm" /\ loc' = name /\ UNCHANGED v_id
    /\ reply' = None
    /\ UNCHANGED <<db, last_loc, last_v_id, status, locals, attempts, durable, etl>>

\* Lines 78-99: "Add ... as a new location? (y/n)".
get_location_confirm(line) ==
    /\ pc = "loc_confirm"
    /\ reply' = Normalise(line)
    /\ IF reply' = Yes THEN pc' = "loc_x" /\ UNCHANGED loc
       ELSE IF reply' = No THEN pc' = "loc" /\ UNCHANGED loc
       ELSE UNCHANGED <<pc, loc>>
    /\ UNCHANGED <<db, last_loc, last_v_id, v_id, status, locals, attempts, durable, etl>>

\* Line 82: the X coordinate; a ValueError asks for it again.
get_location_x(line) ==
    /\ pc = "loc_x"
    /\ LET text == Strip(line) IN
       IF IsInt(text) THEN pc' = "loc_z" /\ x' = ToInt(text)
       ELSE UNCHANGED <<pc, x>>
    /\ reply' = None
    /\ UNCHANGED <<db, last_loc, last_v_id, loc, v_id, status,
                   ench, max_lvl, level, cost, attempts, durable, etl>>

\* Lines 83-94: the Z coordinate; a ValueError goes back to the X prompt,
\* a number inserts and commits the location.
get_location_z(line) ==
    /\ pc = "loc_z"
    /\ LET text == Strip(line) IN
       IF IsInt(text)
       THEN /\ locations' = InsertLocation(locations, loc, x, ToInt(text))
            /\ durable' = CommitNow(durable, locations', villagers, trades)
            /\ AfterLocation(loc)
       ELSE pc' = "loc_x" /\ UNCHANGED <<locations, loc, v_id, durable>>
    /\ x' = 0
    /\ reply' = None
    /\ UNCHANGED <<villagers, enchantments, trades, last_loc, last_v_id, status,
                   ench, max_lvl, level, cost, attempts, etl>>

\* Mutant: the job is not checked.
IsLibrarian_Any(job) == TRUE

\* Line 117
IsLibrarian(job) == job = Librarian

\* Lines 104-143: the villager prompt.
get_villager_id(line) ==
    /\ pc = "vid"
    /\ LET id == Normalise(line) IN
       /\ v_id' = id
       /\ IF id = <<>> THEN UNCHANGED pc
          ELSE IF id \in DOMAIN villagers
          THEN IF ~IsLibrarian(villagers[id].job) THEN UNCHANGED pc
               ELSE IF villagers[id].location # loc THEN pc' = "vmove"
               ELSE pc' = "gate"
          ELSE pc' = "vnew"
    /\ reply' = None
    /\ UNCHANGED <<db, last_loc, last_v_id, loc, status, locals, attempts, durable, etl>>

\* Lines 125-137: "Move them to ...? (y/n)".
get_villager_id_move(line) ==
    /\ pc = "vmove"
    /\ reply' = Normalise(line)
    /\ IF reply' = Yes
       THEN /\ villagers' = MoveVillager(villagers, v_id, loc)
            /\ durable' = CommitNow(durable, locations, villagers', trades)
            /\ pc' = "gate" /\ UNCHANGED v_id
       ELSE IF reply' = No THEN pc' = "vid" /\ UNCHANGED <<v_id, villagers, durable>>
       ELSE UNCHANGED <<pc, v_id, villagers, durable>>
    /\ UNCHANGED <<locations, enchantments, trades, last_loc, last_v_id, loc,
                   status, locals, attempts, etl>>

\* Lines 142-156: "... not found. Add new Librarian at ...? (y/n)".
get_villager_id_new(line) ==
    /\ pc = "vnew"
    /\ reply' = Normalise(line)
    /\ IF reply' = Yes
       THEN /\ villagers' = InsertVillager(villagers, v_id, loc)
            /\ durable' = CommitNow(durable, locations, villagers', trades)
            /\ pc' = "gate" /\ UNCHANGED v_id
       ELSE IF reply' = No THEN pc' = "vid" /\ UNCHANGED <<v_id, villagers, durable>>
       ELSE UNCHANGED <<pc, v_id, villagers, durable>>
    /\ UNCHANGED <<locations, enchantments, trades, last_loc, last_v_id, loc,
                   status, locals, attempts, etl>>

\* Mutant: the gate closes one row late.
IsFull_OffByOne(trade_count) == trade_count > TRADE_LIMIT

\* Mutant: the gate closes at exactly four rows only.
IsFull_Exactly(trade_count) == trade_count = TRADE_LIMIT

\* The gate's test, line 234.
IsFull(trade_count) == trade_count >= TRADE_LIMIT

\* Lines 230-236: the capacity gate.
CapacityGate ==
    /\ pc = "gate"
    /\ IF IsFull(TradeCount(trades, v_id))
       THEN /\ Return(loc, v_id, "full")
            /\ durable' = WithExit(durable, locations, villagers, trades)
       ELSE /\ pc' = "ench"
            /\ UNCHANGED <<loc, v_id, status, last_loc, last_v_id, locals, durable>>
    /\ reply' = None
    /\ UNCHANGED <<db, attempts, etl>>

\* Mutant: the level is always asked for.
AutoLevel_Never(max) == FALSE

\* Line 241
AutoLevel(max) == max = 1

\* Lines 161-172 and 241-243: the enchantment prompt; a maximum level of 1
\* sets the level without asking.
get_enchantment(line) ==
    /\ pc = "ench"
    /\ LET name == Normalise(line) IN
       IF name # <<>> /\ name \in DOMAIN enchantments
       THEN /\ ench' = name
            /\ max_lvl' = enchantments[name]
            /\ IF AutoLevel(max_lvl') THEN level' = 1 /\ pc' = "cost"
               ELSE pc' = "level" /\ UNCHANGED level
       ELSE UNCHANGED <<pc, ench, max_lvl, level>>
    /\ UNCHANGED <<db, last_loc, last_v_id, loc, v_id, status, cost, x, reply, attempts, durable, etl>>

\* Mutant: the level has no upper bound.
LevelInRange_NoUpper(lvl, max) == 1 <= lvl

\* Mutant: the two bounds are swapped.
LevelInRange_Swapped(lvl, max) == max <= lvl /\ lvl <= 1

\* Line 179
LevelInRange(lvl, max) == 1 <= lvl /\ lvl <= max

\* Lines 176-184: the level prompt.
get_level(line) ==
    /\ pc = "level"
    /\ LET text == Strip(line) IN
       IF IsInt(text) /\ LevelInRange(ToInt(text), max_lvl)
       THEN level' = ToInt(text) /\ pc' = "cost"
       ELSE UNCHANGED <<pc, level>>
    /\ UNCHANGED <<db, last_loc, last_v_id, loc, v_id, status, ench, max_lvl,
                   cost, x, reply, attempts, durable, etl>>

\* Line 191
CostInRange(c) == MIN_COST <= c /\ c <= MAX_COST

\* Line 214 (PRAGMA foreign_keys = ON) with the two references of
\* librarian_trades: the INSERT raises sqlite3.IntegrityError unless the
\* villager and the enchantment of the row exist.
ForeignKeysHold(row) ==
    /\ row.villager_id \in DOMAIN villagers
    /\ row.enchantment \in DOMAIN enchantments

\* Lines 269-280: the row is inserted, the with block commits it and the
\* attempt returns "success"; a failed INSERT returns "error".
Save(row) ==
    IF ForeignKeysHold(row)
    THEN /\ trades' = InsertTrade(trades, row)
         /\ durable' = WithExit(durable, locations, villagers, trades')
         /\ Return(loc, v_id, "success")
    ELSE /\ UNCHANGED <<trades, durable>>
         /\ Return(None, None, "error")

\* Lines 188-196 and 249-276: the cost prompt, then the duplicate check.
get_cost(line) ==
    /\ pc = "cost"
    /\ LET text == Strip(line) IN
       IF IsInt(text) /\ CostInRange(ToInt(text))
       THEN LET row == Row(v_id, ench, level, ToInt(text)) IN
            IF IsDuplicate(trades, row)
            THEN /\ pc' = "dup" /\ cost' = ToInt(text)
                 /\ UNCHANGED <<trades, loc, v_id, status, last_loc, last_v_id,
                                ench, max_lvl, level, x, durable>>
            ELSE Save(row)
       ELSE UNCHANGED <<trades, pc, loc, v_id, status, last_loc, last_v_id, locals,
                        durable>>
    /\ UNCHANGED <<locations, villagers, enchantments, reply, attempts, etl>>

\* Lines 259-267: "Add duplicate trade anyway? (y/n)".
confirm_duplicate(line) ==
    /\ pc = "dup"
    /\ reply' = Normalise(line)
    /\ IF reply' = No
       THEN /\ Return(loc, v_id, "cancelled")
            /\ durable' = WithExit(durable, locations, villagers, trades)
            /\ UNCHANGED trades
       ELSE IF reply' = Yes THEN Save(Row(v_id, ench, level, cost))
       ELSE UNCHANGED <<trades, pc, loc, v_id, status, last_loc, last_v_id, locals,
                        durable>>
    /\ UNCHANGED <<locations, villagers, enchantments, attempts, etl>>

\* Lines 278-280: an exception inside the attempt (EOFError from input(), a
\* sqlite3.Error from execute() or from the commit): the with block rolls the
\* open transaction back and the attempt returns (None, None, "error").
Raise ==
    /\ InAttempt
    /\ Return(None, None, "error")
    /\ reply' = None
    /\ locations' = durable.locations
    /\ villagers' = durable.villagers
    /\ trades' = durable.trades
    /\ UNCHANGED <<enchantments, durable, attempts, etl>>

----------------------------------------------------------------------------
(* The continuation prompts of the outer loop.                             *)

\* Lines 307-323: "Add another trade for Villager ... at ...? (y/n/exit)".
same_villager(line) ==
    /\ pc = "cont_v"
    /\ reply' = Normalise(line)
    /\ IF reply' = Yes THEN pc' = "call" /\ UNCHANGED <<last_loc, last_v_id>>
       ELSE IF reply' = No
       THEN /\ last_v_id' = None /\ UNCHANGED last_loc
            /\ pc' = FirstPrompt(last_loc, None)
       ELSE IF reply' = Exit THEN pc' = "exited" /\ UNCHANGED <<last_loc, last_v_id>>
       ELSE UNCHANGED <<pc, last_loc, last_v_id>>
    /\ UNCHANGED <<db, loc, v_id, status, locals, attempts, durable, etl>>

\* Lines 326-344: "Add a trade for a different villager at ...? (y/n/exit)".
same_location(line) ==
    /\ pc = "cont_l"
    /\ reply' = Normalise(line)
    /\ IF reply' = Yes THEN pc' = "call" /\ last_v_id' = None /\ UNCHANGED last_loc
       ELSE IF reply' = No THEN pc' = "cont_n" /\ last_loc' = None /\ last_v_id' = None
       ELSE IF reply' = Exit THEN pc' = "exited" /\ UNCHANGED <<last_loc, last_v_id>>
       ELSE UNCHANGED <<pc, last_loc, last_v_id>>
    /\ UNCHANGED <<db, loc, v_id, status, locals, attempts, durable, etl>>

\* Lines 347-357: "Add another trade at a different location? (y/n)".
different_location(line) ==
    /\ pc = "cont_n"
    /\ reply' = Normalise(line)
    /\ IF reply' = Yes THEN pc' = "call" /\ last_loc' = None /\ last_v_id' = None
       ELSE IF reply' = No THEN pc' = "exited" /\ UNCHANGED <<last_loc, last_v_id>>
       ELSE UNCHANGED <<pc, last_loc, last_v_id>>
    /\ UNCHANGED <<db, loc, v_id, status, locals, attempts, durable, etl>>

Next ==
    \/ Connect
    \/ \E line \in NameLines : get_location(line)
    \/ \E line \in ConfirmLines : get_location_confirm(line)
    \/ \E line \in CoordLines : get_location_x(line)
    \/ \E line \in CoordLines : get_location_z(line)
    \/ \E line \in IdLines : get_villager_id(line)
    \/ \E line \in ConfirmLines : get_villager_id_move(line)
    \/ \E line \in ConfirmLines : get_villager_id_new(line)
    \/ CapacityGate
    \/ \E line \in EnchLines : get_enchantment(line)
    \/ \E line \in LevelLines : get_level(line)
    \/ \E line \in CostLines : get_cost(line)
    \/ \E line \in ConfirmLines : confirm_duplicate(line)
    \/ Raise
    \/ \E line \in ChoiceLines : same_villager(line)
    \/ \E line \in ChoiceLines : same_location(line)
    \/ \E line \in ChoiceLines : different_location(line)

Spec == Init /\ [][Next]_vars

----------------------------------------------------------------------------
(* The reference loader (src/mc_trading_etl.py), run by another process on *)
(* the same database file.                                                 *)

\* Loader runs one explored behaviour may hold.
MaxRuns == 2

EnchRow(n, m) == [enchantment |-> n, max_level |-> m]
JobRow(n) == [job |-> n]

\* Lists extract_data_from_memory may return: nothing (an exception, or no
\* tradeable enchantment), one row, rows in any order, two rows of one name.
ExtractedEnchantments ==
    { <<>>,
      <<EnchRow(<<"u">>, 1)>>,
      <<EnchRow(<<"u">>, 3), EnchRow(<<"m">>, 1)>>,
      <<EnchRow(<<"u">>, 2), EnchRow(<<"u">>, 1)>> }
ExtractedJobs ==
    { <<>>,
      <<JobRow(Librarian)>>,
      <<JobRow(<<"cleric">>), JobRow(<<"cleric">>)>> }

\* The rows of a list, and the rows of the two tables.
ListRows(list) == {list[i] : i \in DOMAIN list}
EnchantmentRows(tbl) == {EnchRow(n, tbl[n]) : n \in DOMAIN tbl}
JobRows(tbl) == {JobRow(n) : n \in tbl}

\* PRIMARY KEY: to_sql raises sqlite3.IntegrityError on two rows of one key.
DistinctKeys(list, key) ==
    \A i, k \in DOMAIN list : list[i][key] = list[k][key] => i = k

\* The tables to_sql fills from a list of distinct keys.
EnchantmentTable(list) ==
    [n \in {list[i].enchantment : i \in DOMAIN list} |->
        (CHOOSE r \in ListRows(list) : r.enchantment = n).max_level]
JobTable(list) == {list[i].job : i \in DOMAIN list}

\* Line 182: "if enchantments and jobs"
ShouldLoad(e, j) == e # <<>> /\ j # <<>>

\* Lines 179-217: one run of the loader with the extracted lists e and j.
\* DROP and CREATE are not part of a transaction, and to_sql commits each
\* table it has filled, so a run in which to_sql raises sqlite3.Error leaves
\* what it had done: the two tables empty, or the enchantments loaded and
\* the jobs empty.
LoaderRun(e, j) ==
    /\ runs < MaxRuns
    /\ runs' = runs + 1
    /\ IF ~ ShouldLoad(e, j)
       THEN etl_log' = "warning" /\ UNCHANGED <<enchantments, jobs>>
       ELSE IF ~ DistinctKeys(e, "enchantment")
       THEN enchantments' = <<>> /\ jobs' = {} /\ etl_log' = "error"
       ELSE IF ~ DistinctKeys(j, "job")
       THEN /\ enchantments' = EnchantmentTable(e)
            /\ jobs' = {} /\ etl_log' = "error"
       ELSE /\ enchantments' = EnchantmentTable(e)
            /\ jobs' = JobTable(j) /\ etl_log' = "success"
    /\ UNCHANGED <<locations, villagers, trades, durable, pc, last_loc, last_v_id,
                   loc, v_id, status, locals, reply, attempts>>

NextLoader ==
    \/ Next
    \/ \E e \in ExtractedEnchantments, j \in ExtractedJobs : LoaderRun(e, j)

\* The loader is explored against sessions that start with three rows held.
InitLoader == Init /\ BagCardinality(trades) = 3

SpecLoader == InitLoader /\ [][NextLoader]_vars

----------------------------------------------------------------------------
(* Properties.                                                             *)

ContinuationPrompts == {"cont_v", "cont_l", "cont_n"}
TradePrompts == {"ench", "level", "cost", "dup"}
ResolverPrompts == {"vid", "vmove", "vnew"}

\* The step on which an attempt returns: status is "none" while it runs.
Returns(st) == status = "none" /\ status' = st

\* Rows of which the step adds a copy.
Added == {r \in BagToSet(trades') : CopiesIn(r, trades') > CopiesIn(r, trades)}

\* Every villager id the database mentions.
KnownIds == DOMAIN villagers \cup {r.villager_id : r \in BagToSet(trades)}

\* C1: when an attempt returns "error" the remembered location and villager
\* are cleared and the prompt issued next is the "different location" one.
C1_ErrorClearsContext ==
    [][Returns("error") =>
        last_loc' = None /\ last_v_id' = None /\ pc' = "cont_n"]_vars

\* C2: a failed connect aborts the attempt only: every call of
\* add_librarian_trade leads into the attempt or (on failure) back to a
\* continuation prompt with status "error"; the process never ends there.
C2_ConnectFailureAbortsAttemptOnly ==
    [][pc = "call" =>
        \/ pc' \in {"loc", "vid", "gate"}
        \/ pc' \in ContinuationPrompts /\ status' = "error"]_vars

\* C3: every row an attempt inserts has 1 <= enchantment_level <= max_level,
\* max_level being the value the attempt read for the row's enchantment, and
\* 1 <= cost_emeralds <= 64.
C3_InsertedRowInRange ==
    [][\A r \in Added :
         /\ r.enchantment = ench
         /\ max_lvl = enchantments[r.enchantment]
         /\ 1 <= r.enchantment_level /\ r.enchantment_level <= max_lvl
         /\ 1 <= r.cost_emeralds /\ r.cost_emeralds <= 64]_vars

C3_Witness ==
    /\ status = "success"
    /\ BagIn(Row(<<"q">>, <<"u">>, 2, 64), trades)

\* C4: if no villager holds more than 4 rows, no step of the session makes
\* one hold more than 4.
C4_AtMostFourRows ==
    [][(\A v \in KnownIds : TradeCount(trades, v) <= 4) =>
       (\A v \in KnownIds' : TradeCount(trades', v) <= 4)]_vars

C4_Witness ==
    /\ status = "success" /\ pc = "cont_v"
    /\ TradeCount(trades, last_v_id) = 4

\* C5: at the gate, a villager holding 4 rows or more ends the attempt with
\* "full" and the table untouched (an exception in the count query ends it
\* with "error" instead), and no enchantment, level, cost or duplicate prompt
\* is ever issued for a villager holding 4 rows or more.
C5_FullVillagerIsRejected ==
    [][/\ (pc = "gate" /\ TradeCount(trades, v_id) >= 4) =>
            /\ trades' = trades
            /\ pc' \in ContinuationPrompts
            /\ status' \in {"full", "error"}
            /\ (status' = "full" => loc' = loc /\ v_id' = v_id)
       /\ (pc' \in TradePrompts) => TradeCount(trades', v_id') < 4]_vars

C5_Witness ==
    /\ status = "full" /\ pc = "cont_l"
    /\ v_id = <<"p">> /\ TradeCount(trades, v_id) = 4
    /\ BagIn(Row(<<"p">>, <<"u">>, 2, 64), trades)

\* C6: a copy of an existing row is added only by the answer "y" to the
\* duplicate prompt; "n" returns "cancelled" and leaves the table as it was;
\* any other answer leaves the table as it was and asks again.
C6_DuplicateNeedsConfirmation ==
    [][/\ \A r \in Added : BagIn(r, trades) => pc = "dup" /\ reply' = Yes
       /\ (pc = "dup" /\ reply' = No) =>
            trades' = trades /\ status' = "cancelled"
       /\ (pc = "dup" /\ reply' \notin {Yes, No}) =>
            trades' = trades /\ (pc' = "dup" \/ status' = "error")]_vars

C6_Witness ==
    /\ status = "success" /\ reply = Yes
    /\ CopiesIn(Row(<<"q">>, <<"m">>, 1, 64), trades) = 2

\* C7: the location of an existing villager changes only by the answer "y"
\* to the relocation prompt for that villager; "n" leaves the villagers table
\* as it was and goes back to the villager prompt.
C7_RelocationNeedsConfirmation ==
    [][/\ \A v \in DOMAIN villagers :
            /\ v \in DOMAIN villagers'
            /\ villagers'[v].location # villagers[v].location =>
                 pc = "vmove" /\ v = v_id /\ reply' = Yes
       /\ (pc = "vmove" /\ reply' = No) =>
            villagers' = villagers /\ pc' = "vid"]_vars

C7_Witness ==
    /\ villagers[<<"p">>].location = <<"n">>
    /\ pc = "gate" /\ reply = Yes

\* C8: when the villager resolver returns, the villagers table holds the
\* returned id as a librarian at the target location.
C8_ResolvedVillagerIsLibrarianThere ==
    [][(pc \in ResolverPrompts /\ pc' = "gate") =>
        /\ v_id' \in DOMAIN villagers'
        /\ villagers'[v_id'].job = Librarian
        /\ villagers'[v_id'].location = loc'
        /\ loc' = loc]_vars

C8_Witness ==
    /\ pc = "gate" /\ reply = Yes
    /\ v_id = <<"q">> /\ loc = <<"n">>

\* C9: a villager that is no librarian is never returned by the resolver,
\* never gets a row, and its villagers row stays as it is.
C9_NonLibrarianUntouched ==
    [][\A v \in DOMAIN villagers : villagers[v].job # Librarian =>
         /\ v \in DOMAIN villagers' /\ villagers'[v] = villagers[v]
         /\ TradeCount(trades', v) = TradeCount(trades, v)
         /\ (pc' \in {"gate"} \cup TradePrompts => v_id' # v)]_vars

C9_Witness == pc = "vid" /\ v_id = <<"f">>

\* C10: "success" and "cancelled" leave the attempt's location and villager
\* remembered and issue the "same villager" prompt; "full" leaves its
\* location remembered, the villager cleared, and issues the "different
\* villager at the same location" prompt.
C10_MemoryAfterAttempt ==
    [][/\ (Returns("success") \/ Returns("cancelled")) =>
            /\ Truthy(loc) /\ Truthy(v_id)
            /\ last_loc' = loc /\ last_v_id' = v_id
            /\ pc' = "cont_v"
       /\ Returns("full") =>
            /\ Truthy(loc)
            /\ last_loc' = loc /\ last_v_id' = None
            /\ pc' = "cont_l"]_vars

C10_Witness ==
    /\ status = "cancelled" /\ pc = "cont_v"
    /\ last_loc = <<"n">> /\ last_v_id = <<"q">>


MemoryKept == last_loc' = last_loc /\ last_v_id' = last_v_id

\* C11: the continuation prompts cascade: "same villager"? y calls the next
\* attempt with both remembered, n drops the villager and asks "same
\* location"?, exit ends; "same location"? y calls the next attempt with the
\* location only, n clears it and asks "different location"?, exit ends;
\* "different location"? y calls an attempt with nothing remembered, n ends;
\* any other answer asks the same question again with the memory as it was.
\* The attempt called takes the remembered values and asks for the rest.
C11_ContinuationCascade ==
    [][/\ pc = "cont_v" =>
            /\ reply' = Yes => pc' = "call" /\ MemoryKept
            /\ reply' = No =>
                 pc' = "cont_l" /\ last_loc' = last_loc /\ last_v_id' = None
            /\ reply' = Exit => pc' = "exited"
            /\ reply' \notin {Yes, No, Exit} => pc' = "cont_v" /\ MemoryKept
       /\ pc = "cont_l" =>
            /\ reply' = Yes =>
                 pc' = "call" /\ last_loc' = last_loc /\ last_v_id' = None
            /\ reply' = No =>
                 pc' = "cont_n" /\ last_loc' = None /\ last_v_id' = None
            /\ reply' = Exit => pc' = "exited"
            /\ reply' \notin {Yes, No, Exit} => pc' = "cont_l" /\ MemoryKept
       /\ pc = "cont_n" =>
            /\ reply' = Yes => pc' = "call" /\ last_loc' = None /\ last_v_id' = None
            /\ reply' = No => pc' = "exited"
            /\ reply' \notin {Yes, No} => pc' = "cont_n" /\ MemoryKept
       /\ (pc = "call" /\ pc' # "crashed") =>
            /\ MemoryKept
            /\ (last_loc # None /\ last_v_id # None) =>
                 pc' = "gate" /\ loc' = last_loc /\ v_id' = last_v_id
            /\ (last_loc # None /\ last_v_id = None) =>
                 pc' = "vid" /\ loc' = last_loc
            /\ (last_loc = None /\ last_v_id = None) => pc' = "loc"]_vars

C11_Witness ==
    /\ pc = "gate" /\ attempts = 2 /\ reply = Yes
    /\ last_loc = <<"s">> /\ last_v_id = <<"q">>
    /\ loc = last_loc /\ v_id = last_v_id


\* C12: a location insert, a villager insert and a relocation are durable
\* from the step that confirms them; no later step undoes a durable location
\* or villager row, and a return with "full", "cancelled" or "error" or an
\* exit leaves the file as it was; the durable trade table changes only on a
\* return with "success".
C12_CommittedAsYouGo ==
    [][/\ (pc = "loc_z" /\ locations' # locations) =>
            durable'.locations = locations'
       /\ (pc \in {"vmove", "vnew"} /\ villagers' # villagers) =>
            durable'.villagers = villagers'
       /\ \A l \in DOMAIN durable.locations :
            /\ l \in DOMAIN durable'.locations
            /\ durable'.locations[l] = durable.locations[l]
       /\ \A v \in DOMAIN durable.villagers :
            /\ v \in DOMAIN durable'.villagers
            /\ durable'.villagers[v] # durable.villagers[v] =>
                 pc = "vmove" /\ reply' = Yes
       /\ (Returns("full") \/ Returns("cancelled") \/ Returns("error")
             \/ pc' = "exited") =>
            /\ durable' = durable
            /\ locations' = durable.locations
            /\ villagers' = durable.villagers
            /\ trades' = durable.trades
       /\ durable'.trades # durable.trades => Returns("success")]_vars

C12_Witness ==
    /\ status = "error"
    /\ <<"n">> \in DOMAIN durable.locations
    /\ <<"q">> \in DOMAIN durable.villagers
    /\ durable.villagers[<<"q">>].location = <<"n">>
    /\ durable.villagers[<<"p">>].location = <<"n">>
    /\ TradeCount(durable.trades, <<"q">>) = 0


\* C13: the locations table changes only by the insert of the entered name,
\* trimmed, lower-cased and non-empty, with the two integers typed, after the
\* answer "y"; an existing name is returned with no change; a declined
\* creation changes nothing and asks for a name again; no row is ever
\* updated or deleted.
C13_LocationsOnlyGrowByConfirmedInsert ==
    [][/\ locations' # locations =>
            /\ pc = "loc_z"
            /\ loc \notin DOMAIN locations
            /\ loc # <<>> /\ Strip(loc) = loc /\ Lower(loc) = loc
            /\ DOMAIN locations' = DOMAIN locations \cup {loc}
            /\ locations'[loc].x_coord = x
            /\ locations'[loc].z_coord \in Int
       /\ \A l \in DOMAIN locations :
            l \in DOMAIN locations' /\ locations'[l] = locations[l]
       /\ (pc = "loc" /\ pc' \in {"vid", "gate"}) =>
            locations' = locations /\ loc' \in DOMAIN locations
       /\ (pc = "loc_confirm" /\ reply' = No) =>
            locations' = locations /\ pc' = "loc"
       /\ (pc = "loc_confirm" /\ pc' = "loc_x") => reply' = Yes
       /\ (pc = "loc_x" /\ pc' = "loc_z") => x' \in Int]_vars

C13_Witness ==
    /\ pc = "vid" /\ loc = <<"n">>
    /\ <<"n">> \in DOMAIN locations
    /\ locations[<<"n">>] = [x_coord |-> 0 - 7, z_coord |-> 7]
    /\ locations[<<"s">>] = InitLocations[<<"s">>]


\* C15: an enchantment found with max_level = 1 sets the level to 1 and the
\* cost prompt follows the enchantment prompt; one found with max_level > 1
\* is followed by the level prompt, which is left (for the cost prompt) by a
\* line exactly when the line is an integer in 1..max_level and is issued
\* again otherwise.
C15_LevelPromptOnlyAboveOne ==
    [][/\ (pc = "ench" /\ pc' \in TradePrompts \ {"ench"}) =>
            /\ ench' \in DOMAIN enchantments
            /\ max_lvl' = enchantments[ench']
            /\ max_lvl' = 1 => pc' = "cost" /\ level' = 1
            /\ max_lvl' > 1 => pc' = "level"
       /\ (pc = "level" /\ max_lvl > 1) =>
            /\ pc' \in {"level", "cost"} \/ Returns("error")
            /\ pc' = "cost" => 1 <= level' /\ level' <= max_lvl
            /\ \A line \in LevelLines : get_level(line) =>
                 (pc' = "cost" <=>
                    /\ IsInt(Strip(line))
                    /\ 1 <= ToInt(Strip(line))
                    /\ ToInt(Strip(line)) <= max_lvl)]_vars

C15_Witness ==
    /\ pc = "cost" /\ status = "none"
    /\ ench = <<"m">> /\ max_lvl = 1 /\ level = 1


\* C16: the trade table is append-only: no step removes or changes a row, a
\* step adds at most one row, and a row is added exactly on the step on which
\* the attempt returns "success"; "full", "cancelled" and "error" leave the
\* table as it was.
C16_TradesAppendOnly ==
    [][/\ \A r \in BagToSet(trades) : CopiesIn(r, trades') >= CopiesIn(r, trades)
       /\ BagCardinality(trades') - BagCardinality(trades) \in {0, 1}
       /\ BagCardinality(trades') = BagCardinality(trades) + 1 <=> Returns("success")
       /\ (Returns("full") \/ Returns("cancelled") \/ Returns("error")) =>
            trades' = trades]_vars

C16_Witness ==
    /\ status = "success" /\ attempts = 2
    /\ CopiesIn(Row(<<"q">>, <<"m">>, 1, 1), trades) = 2
    /\ BagCardinality(trades) = 2


\* C18: every villager row a step inserts or relocates names a location held
\* by the locations table after the step; every trade row a step inserts
\* names a villager held by villagers with job "librarian" and the
\* enchantment the attempt found in the enchantments table.
C18_ReferencesResolve ==
    [][/\ \A v \in DOMAIN villagers' :
            (v \notin DOMAIN villagers \/ villagers'[v] # villagers[v]) =>
                villagers'[v].location \in DOMAIN locations'
       /\ \A r \in Added :
            /\ r.villager_id \in DOMAIN villagers'
            /\ villagers'[r.villager_id].job = Librarian
            /\ villagers'[r.villager_id].location \in DOMAIN locations'
            /\ r.enchantment = ench
            /\ ench \in DOMAIN enchantments]_vars

C18_Witness ==
    /\ status = "success" /\ attempts = 2 /\ pc = "cont_v"
    /\ last_v_id = <<"q">> /\ last_loc = <<"n">>
    /\ villagers[<<"q">>] = [location |-> <<"n">>, job |-> Librarian]
    /\ <<"n">> \in DOMAIN locations
    /\ BagIn(Row(<<"q">>, <<"m">>, 1, 1), trades)
    /\ BagIn(Row(<<"q">>, <<"u">>, 2, 1), trades)


\* C19: whenever an attempt is about to start, a remembered villager comes
\* with a remembered location, and the villager's row has job "librarian"
\* and that location.
C19_RememberedContextWellFormed ==
    pc = "call" =>
        (Truthy(last_v_id) =>
            /\ Truthy(last_loc)
            /\ last_loc \in DOMAIN locations
            /\ last_v_id \in DOMAIN villagers
            /\ villagers[last_v_id].job = Librarian
            /\ villagers[last_v_id].location = last_loc)

C19_Witness ==
    /\ pc = "call" /\ attempts = 1
    /\ last_v_id = <<"p">> /\ last_loc = <<"n">>
    /\ villagers[<<"p">>].location = <<"n">>


\* At every prompt of an attempt some line leaves the prompt, the level
\* prompt included when the maximum level read is at least 1; when it is
\* below 1 no line leaves the level prompt.
PromptsCanBeLeft ==
    /\ pc = "loc" => \E line \in NameLines :
            ENABLED (get_location(line) /\ pc' # "loc")
    /\ pc = "loc_confirm" => \E line \in ConfirmLines :
            ENABLED (get_location_confirm(line) /\ pc' # "loc_confirm")
    /\ pc = "loc_x" => \E line \in CoordLines :
            ENABLED (get_location_x(line) /\ pc' # "loc_x")
    /\ pc = "loc_z" => \E line \in CoordLines :
            ENABLED (get_location_z(line) /\ pc' # "loc_z")
    /\ pc = "vid" => \E line \in IdLines :
            ENABLED (get_villager_id(line) /\ pc' # "vid")
    /\ pc = "vmove" => \E line \in ConfirmLines :
            ENABLED (get_villager_id_move(line) /\ pc' # "vmove")
    /\ pc = "vnew" => \E line \in ConfirmLines :
            ENABLED (get_villager_id_new(line) /\ pc' # "vnew")
    /\ pc = "ench" => \E line \in EnchLines :
            ENABLED (get_enchantment(line) /\ pc' # "ench")
    /\ (pc = "level" /\ max_lvl >= 1) => \E line \in LevelLines :
            ENABLED (get_level(line) /\ pc' # "level")
    /\ (pc = "level" /\ max_lvl < 1) => \A line \in LevelLines :
            ~ ENABLED (get_level(line) /\ pc' # "level")
    /\ pc = "cost" => \E line \in CostLines :
            ENABLED (get_cost(line) /\ pc' # "cost")
    /\ pc = "dup" => \E line \in ConfirmLines :
            ENABLED (confirm_duplicate(line) /\ pc' # "dup")

\* C20 (as stated): with a maximum level below 1 the attempt never returns
\* from the level prompt.
C20_TrapNeverReturns ==
    [][(pc = "level" /\ max_lvl < 1) => (pc' = "level" /\ status' = "none")]_vars

\* C20 (amended): every prompt of an attempt can be left by some line,
\* provided the maximum level read is at least 1; with a maximum level below
\* 1 no line leaves the level prompt, and the attempt leaves it only by an
\* exception (the end of the input), returning "error".
C20_TrapLeftOnlyByError ==
    [][/\ PromptsCanBeLeft
       /\ (pc = "level" /\ max_lvl < 1) =>
            /\ pc' = "level" \/ Returns("error")
            /\ \A line \in LevelLines : get_level(line) => pc' = "level"]_vars

C20_Witness ==
    /\ pc = "level" /\ status = "none"
    /\ ench = <<"z">> /\ max_lvl = 0
    /\ enchantments[<<"z">>] < 1


\* C14: in every state, with loader runs between the steps of a session,
\* the level of every trade row is at most the max_level the enchantments
\* table now holds for the row's enchantment.
C14_LevelWithinCurrentMax ==
    \A r \in BagToSet(trades) :
        r.enchantment \in DOMAIN enchantments =>
            r.enchantment_level <= enchantments[r.enchantment]

\* C17: a loader run changes the two tables only when both extracted lists
\* are non-empty, and then they hold exactly the extracted rows; otherwise
\* they are as before; locations, villagers and librarian_trades are never
\* touched.
C17_LoaderReplacesOrLeaves ==
    [][\A e \in ExtractedEnchantments, j \in ExtractedJobs :
         LoaderRun(e, j) =>
            /\ IF e # <<>> /\ j # <<>>
               THEN /\ EnchantmentRows(enchantments') = ListRows(e)
                    /\ JobRows(jobs') = ListRows(j)
               ELSE enchantments' = enchantments /\ jobs' = jobs
            /\ UNCHANGED <<locations, villagers, trades>>]_vars

====
